---- MODULE Spec2Model ----
(***************************************************************************)
(* MarkedPtr<T, N> (src/imp/ptr.rs): a raw pointer whose N low-order bits  *)
(* carry a tag.  The pointer-sized word is modelled at width WordBits.     *)
(* The type parameters (N and the pointee's alignment) and the current     *)
(* value are the state; every method of the type is one action that        *)
(* records its receiver, arguments and result in `last`.                   *)
(***************************************************************************)
EXTENDS Integers, Sequences, FiniteSets, TLC

VARIABLES
    N,      \* const generic N: the number of tag bits of the type
    align,  \* mem::align_of::<T>() of the current pointee type T, in bytes
    inner,  \* field `inner` of the current MarkedPtr value, as an integer
    last    \* the last call: method, receiver, arguments, outcome

vars == <<N, align, inner, last>>

(***************************************************************************)
(* Bounds of the model.                                                    *)
(***************************************************************************)
WordBits == 3       \* width of usize / of a pointer in the model
MaxTagBits == 2     \* N ranges over 0 .. MaxTagBits
MaxAlignLog == 2    \* align_of::<T>() ranges over 2^0 .. 2^MaxAlignLog

WordMod == 2 ^ WordBits
MaxWord == WordMod - 1
Word == 0 .. MaxWord
TagBitsRange == {n \in 0 .. MaxTagBits : n < WordBits}
Aligns == {2 ^ k : k \in {j \in 0 .. MaxAlignLog : j < WordBits}}

(***************************************************************************)
(* usize arithmetic at width WordBits.                                     *)
(***************************************************************************)
RECURSIVE BitAnd(_, _)
BitAnd(a, b) ==
    IF a = 0 \/ b = 0 THEN 0
    ELSE (a % 2) * (b % 2) + 2 * BitAnd(a \div 2, b \div 2)

RECURSIVE BitOr(_, _)
BitOr(a, b) ==
    IF a = 0 THEN b
    ELSE IF b = 0 THEN a
    ELSE (IF a % 2 = 1 \/ b % 2 = 1 THEN 1 ELSE 0) + 2 * BitOr(a \div 2, b \div 2)

BitNot(a) == MaxWord - a
Shl(a, n) == (a * (2 ^ n)) % WordMod
WrappingAdd(a, b) == (a + b) % WordMod
WrappingSub(a, b) == (a - b + WordMod) % WordMod

(***************************************************************************)
(* The bit-encoding kernel (crate root): called from ptr.rs, defined       *)
(* outside it.                                                             *)
(***************************************************************************)
mark_mask(tag_bits) == WrappingSub(Shl(1, tag_bits), 1)

has_sufficient_alignment(alignment, bits) == alignment >= 2 ^ bits

crate_compose(ptr, tag, tag_bits) ==
    BitOr(BitAnd(ptr, BitNot(mark_mask(tag_bits))), BitAnd(tag, mark_mask(tag_bits)))

crate_decompose_ptr(marked, tag_bits) == BitAnd(marked, BitNot(mark_mask(tag_bits)))

crate_decompose_tag(marked, tag_bits) == BitAnd(marked, mark_mask(tag_bits))

crate_decompose(marked, tag_bits) ==
    <<crate_decompose_ptr(marked, tag_bits), crate_decompose_tag(marked, tag_bits)>>

(***************************************************************************)
(* Outcomes of a call: a returned value, or a panic.                       *)
(***************************************************************************)
Ok(v) == [fatal |-> FALSE, val |-> v]
Panic == [fatal |-> TRUE, val |-> 0]

None == [some |-> FALSE, addr |-> 0]
Some(a) == [some |-> TRUE, addr |-> a]

(***************************************************************************)
(* impl MarkedPtr<T, N>                                                    *)
(***************************************************************************)
TAG_BITS == N
TAG_MASK == mark_mask(TAG_BITS)
POINTER_MASK == BitNot(TAG_MASK)

\* new with the body of null(): the argument is dropped
new_ignoring_ptr(ptr) == 0

new(ptr) == ptr

null == new(0)

from_usize(val) == val

into_ptr(self) == self

into_usize(self) == self

\* compose without the kernel's masking of the tag
compose_untruncated(ptr, tag) ==
    IF ~has_sufficient_alignment(align, N) THEN Panic
    ELSE Ok(new(BitOr(ptr, tag)))

compose(ptr, tag) ==
    IF ~has_sufficient_alignment(align, N) THEN Panic
    ELSE Ok(new(crate_compose(ptr, tag, TAG_BITS)))

\* cast without the alignment assertion for the new pointee type
cast_unchecked(self, alignU) == Ok(self)

cast(self, alignU) ==
    IF ~has_sufficient_alignment(alignU, N) THEN Panic
    ELSE Ok(self)

\* decompose returning the inner pointer with its tag bits left in
decompose_unstripped(self) == <<into_ptr(self), crate_decompose_tag(self, TAG_BITS)>>

decompose(self) == crate_decompose(self, TAG_BITS)

decompose_ptr(self) == crate_decompose_ptr(self, TAG_BITS)

decompose_tag(self) == crate_decompose_tag(self, TAG_BITS)

ptr_is_null(p) == p = 0

\* is_null testing the inner pointer as is, tag included
is_null_whole_word(self) == ptr_is_null(into_ptr(self))

is_null(self) == ptr_is_null(decompose_ptr(self))

clear_tag(self) == Ok(new(decompose_ptr(self)))

split_tag(self) == <<new(decompose(self)[1]), decompose(self)[2]>>

\* set_tag that ORs the new tag onto the old one instead of replacing it
set_tag_keeping_old(self, tag) ==
    IF ~has_sufficient_alignment(align, N) THEN Panic
    ELSE Ok(from_usize(BitOr(into_usize(self), BitAnd(tag, TAG_MASK))))

\* set_tag that packs through the kernel directly, without the alignment assertion
set_tag_unchecked(self, tag) == Ok(new(crate_compose(decompose_ptr(self), tag, TAG_BITS)))

set_tag(self, tag) == compose(decompose_ptr(self), tag)

\* The closures handed to update_tag: each maps the old tag to a usize.
Funcs == {"dec", "inc", "double", "ones", "same"}

Apply(func, tag) ==
    CASE func = "dec" -> WrappingSub(tag, 1)
      [] func = "inc" -> WrappingAdd(tag, 1)
      [] func = "double" -> WrappingAdd(tag, tag)
      [] func = "ones" -> MaxWord
      [] OTHER -> tag

update_tag(self, func) == compose(decompose(self)[1], Apply(func, decompose(self)[2]))

\* usize `+` and `-` panic on overflow when the build has overflow checks on (the
\* debug profile) and wrap when it has them off (the release profile).
add_tag(self, value, overflow_checks) ==
    IF overflow_checks /\ into_usize(self) + value > MaxWord THEN Panic
    ELSE Ok(from_usize(WrappingAdd(into_usize(self), value)))

sub_tag(self, value, overflow_checks) ==
    IF overflow_checks /\ into_usize(self) - value < 0 THEN Panic
    ELSE Ok(from_usize(WrappingSub(into_usize(self), value)))

\* <*mut T>::as_ref / as_mut: None for the null pointer, Some otherwise.
ptr_as_ref(p) == IF p = 0 THEN None ELSE Some(p)

\* as_ref on the inner pointer as is, tag included
as_ref_unstripped(self) == ptr_as_ref(into_ptr(self))

as_ref(self) == ptr_as_ref(decompose_ptr(self))

as_mut(self) == ptr_as_ref(decompose_ptr(self))

decompose_ref(self) == <<as_ref(self), decompose_tag(self)>>

decompose_mut(self) == <<as_mut(self), decompose_tag(self)>>

default == null

(***************************************************************************)
(* impl From<*mut T>, From<*const T>, From<&T>, From<&mut T>,              *)
(* From<NonNull<T>>                                                        *)
(***************************************************************************)
from_mut_ptr(ptr) == new(ptr)

from_const_ptr(ptr) == new(ptr)

from_ref(reference) == from_const_ptr(reference)

from_mut(reference) == new(reference)

from_non_null(non_null) == new(non_null)

(***************************************************************************)
(* impl PartialEq, PartialOrd, Ord, Hash: all delegate to the raw pointer  *)
(* `inner`, which compares and hashes by its address value.                *)
(***************************************************************************)
ptr_cmp(a, b) == IF a < b THEN "Less" ELSE IF a = b THEN "Equal" ELSE "Greater"

\* equality over the address component only
eq_by_address(self, other) == decompose_ptr(self) = decompose_ptr(other)

eq(self, other) == self = other

partial_cmp(self, other) == Some(ptr_cmp(self, other))

cmp(self, other) == ptr_cmp(self, other)

\* what the value writes into the Hasher
hash(self) == <<self>>

(***************************************************************************)
(* The state machine: one action per method.                               *)
(***************************************************************************)
Call(op, recv, arg, arg2, fatal, out) ==
    [op |-> op, recv |-> recv, arg |-> arg, arg2 |-> arg2, fatal |-> fatal, out |-> out]

\* addresses a reference to T can hold: non-null and aligned for T
RefAddrs == {a \in Word : a # 0 /\ a % align = 0}
\* addresses a NonNull<T> can hold
NonNullAddrs == Word \ {0}

Init ==
    /\ N \in TagBitsRange
    /\ align \in Aligns
    /\ inner = default
    /\ last = Call("default", 0, 0, 0, FALSE, default)

\* The client binds one value and then calls methods on it.  The constructors are
\* associated functions: they read no receiver, so they run on the fresh binding.
Fresh == last.op = "default"

\* the value bound after a call returning Self with outcome r
Bound(r) == IF r.fatal THEN inner ELSE r.val

Null ==
    /\ Fresh
    /\ inner' = null
    /\ last' = Call("null", 0, 0, 0, FALSE, null)
    /\ UNCHANGED <<N, align>>

New ==
    \E ptr \in Word :
        /\ Fresh
        /\ inner' = new(ptr)
        /\ last' = Call("new", 0, ptr, 0, FALSE, new(ptr))
        /\ UNCHANGED <<N, align>>

FromUsize ==
    \E val \in Word :
        /\ Fresh
        /\ inner' = from_usize(val)
        /\ last' = Call("from_usize", 0, val, 0, FALSE, from_usize(val))
        /\ UNCHANGED <<N, align>>

Compose ==
    \E ptr \in Word, tag \in Word :
        /\ Fresh
        /\ inner' = Bound(compose(ptr, tag))
        /\ last' = Call("compose", 0, ptr, tag, compose(ptr, tag).fatal, compose(ptr, tag).val)
        /\ UNCHANGED <<N, align>>

FromMutPtr ==
    \E ptr \in Word :
        /\ Fresh
        /\ inner' = from_mut_ptr(ptr)
        /\ last' = Call("from_mut_ptr", 0, ptr, 0, FALSE, from_mut_ptr(ptr))
        /\ UNCHANGED <<N, align>>

FromConstPtr ==
    \E ptr \in Word :
        /\ Fresh
        /\ inner' = from_const_ptr(ptr)
        /\ last' = Call("from_const_ptr", 0, ptr, 0, FALSE, from_const_ptr(ptr))
        /\ UNCHANGED <<N, align>>

FromRef ==
    \E reference \in RefAddrs :
        /\ Fresh
        /\ inner' = from_ref(reference)
        /\ last' = Call("from_ref", 0, reference, 0, FALSE, from_ref(reference))
        /\ UNCHANGED <<N, align>>

FromMut ==
    \E reference \in RefAddrs :
        /\ Fresh
        /\ inner' = from_mut(reference)
        /\ last' = Call("from_mut", 0, reference, 0, FALSE, from_mut(reference))
        /\ UNCHANGED <<N, align>>

FromNonNull ==
    \E non_null \in NonNullAddrs :
        /\ Fresh
        /\ inner' = from_non_null(non_null)
        /\ last' = Call("from_non_null", 0, non_null, 0, FALSE, from_non_null(non_null))
        /\ UNCHANGED <<N, align>>

\* cast::<U>(): on success the value is bound at the new pointee type U
Cast ==
    \E alignU \in Aligns :
        /\ inner' = Bound(cast(inner, alignU))
        /\ align' = IF cast(inner, alignU).fatal THEN align ELSE alignU
        /\ last' = Call("cast", inner, alignU, 0, cast(inner, alignU).fatal, cast(inner, alignU).val)
        /\ UNCHANGED N

ClearTag ==
    /\ inner' = Bound(clear_tag(inner))
    /\ last' = Call("clear_tag", inner, 0, 0, clear_tag(inner).fatal, clear_tag(inner).val)
    /\ UNCHANGED <<N, align>>

SetTag ==
    \E tag \in Word :
        /\ inner' = Bound(set_tag(inner, tag))
        /\ last' = Call("set_tag", inner, tag, 0, set_tag(inner, tag).fatal, set_tag(inner, tag).val)
        /\ UNCHANGED <<N, align>>

UpdateTag ==
    \E func \in Funcs :
        /\ inner' = Bound(update_tag(inner, func))
        /\ last' = Call("update_tag", inner, func, 0,
                        update_tag(inner, func).fatal, update_tag(inner, func).val)
        /\ UNCHANGED <<N, align>>

AddTag ==
    \E value \in Word, overflow_checks \in BOOLEAN :
        /\ inner' = Bound(add_tag(inner, value, overflow_checks))
        /\ last' = Call("add_tag", inner, value, overflow_checks,
                        add_tag(inner, value, overflow_checks).fatal,
                        add_tag(inner, value, overflow_checks).val)
        /\ UNCHANGED <<N, align>>

SubTag ==
    \E value \in Word, overflow_checks \in BOOLEAN :
        /\ inner' = Bound(sub_tag(inner, value, overflow_checks))
        /\ last' = Call("sub_tag", inner, value, overflow_checks,
                        sub_tag(inner, value, overflow_checks).fatal,
                        sub_tag(inner, value, overflow_checks).val)
        /\ UNCHANGED <<N, align>>

IntoPtr ==
    /\ last' = Call("into_ptr", inner, 0, 0, FALSE, into_ptr(inner))
    /\ UNCHANGED <<N, align, inner>>

IntoUsize ==
    /\ last' = Call("into_usize", inner, 0, 0, FALSE, into_usize(inner))
    /\ UNCHANGED <<N, align, inner>>

IsNull ==
    /\ last' = Call("is_null", inner, 0, 0, FALSE, is_null(inner))
    /\ UNCHANGED <<N, align, inner>>

SplitTag ==
    /\ last' = Call("split_tag", inner, 0, 0, FALSE, split_tag(inner))
    /\ UNCHANGED <<N, align, inner>>

Decompose ==
    /\ last' = Call("decompose", inner, 0, 0, FALSE, decompose(inner))
    /\ UNCHANGED <<N, align, inner>>

DecomposePtr ==
    /\ last' = Call("decompose_ptr", inner, 0, 0, FALSE, decompose_ptr(inner))
    /\ UNCHANGED <<N, align, inner>>

DecomposeTag ==
    /\ last' = Call("decompose_tag", inner, 0, 0, FALSE, decompose_tag(inner))
    /\ UNCHANGED <<N, align, inner>>

AsRef ==
    /\ last' = Call("as_ref", inner, 0, 0, FALSE, as_ref(inner))
    /\ UNCHANGED <<N, align, inner>>

AsMut ==
    /\ last' = Call("as_mut", inner, 0, 0, FALSE, as_mut(inner))
    /\ UNCHANGED <<N, align, inner>>

DecomposeRef ==
    /\ last' = Call("decompose_ref", inner, 0, 0, FALSE, decompose_ref(inner))
    /\ UNCHANGED <<N, align, inner>>

DecomposeMut ==
    /\ last' = Call("decompose_mut", inner, 0, 0, FALSE, decompose_mut(inner))
    /\ UNCHANGED <<N, align, inner>>

Eq ==
    \E other \in Word :
        /\ last' = Call("eq", inner, other, 0, FALSE, eq(inner, other))
        /\ UNCHANGED <<N, align, inner>>

PartialCmp ==
    \E other \in Word :
        /\ last' = Call("partial_cmp", inner, other, 0, FALSE, partial_cmp(inner, other))
        /\ UNCHANGED <<N, align, inner>>

Cmp ==
    \E other \in Word :
        /\ last' = Call("cmp", inner, other, 0, FALSE, cmp(inner, other))
        /\ UNCHANGED <<N, align, inner>>

Hash ==
    /\ last' = Call("hash", inner, 0, 0, FALSE, hash(inner))
    /\ UNCHANGED <<N, align, inner>>

Next ==
    \/ Null \/ New \/ FromUsize \/ Compose
    \/ FromMutPtr \/ FromConstPtr \/ FromRef \/ FromMut \/ FromNonNull
    \/ Cast \/ ClearTag \/ SetTag \/ UpdateTag \/ AddTag \/ SubTag
    \/ IntoPtr \/ IntoUsize \/ IsNull \/ SplitTag
    \/ Decompose \/ DecomposePtr \/ DecomposeTag
    \/ AsRef \/ AsMut \/ DecomposeRef \/ DecomposeMut
    \/ Eq \/ PartialCmp \/ Cmp \/ Hash

Spec == Init /\ [][Next]_vars

(***************************************************************************)
(* Properties.  The tag and address fields are stated arithmetically:     *)
(* the low N bits of a word w are w % 2^N, the rest is w - w % 2^N.        *)
(***************************************************************************)
TagField(w) == w % (2 ^ N)
AddrField(w) == w - (w % (2 ^ N))
AlignmentHoldsN == align >= 2 ^ N
NumericOrder(a, b) == IF a < b THEN "Less" ELSE IF a > b THEN "Greater" ELSE "Equal"
Conversions == {"new", "from_mut_ptr", "from_const_ptr", "from_ref", "from_mut", "from_non_null"}

\* C1: round trip.  When the pointee's alignment is at least 2^N, composing an
\* address whose low N bits are zero with a tag below 2^N and decomposing the
\* result gives back exactly (address, tag).
C1_RoundTrip ==
    (last.op = "compose" /\ AlignmentHoldsN /\ TagField(last.arg) = 0 /\ last.arg2 < 2 ^ N)
        => (~last.fatal /\ decompose(last.out) = <<last.arg, last.arg2>>)

C1_Witness ==
    /\ last.op = "compose" /\ ~last.fatal
    /\ N >= 1 /\ last.arg # 0 /\ TagField(last.arg) = 0 /\ last.arg2 = 2 ^ N - 1
    /\ decompose(inner) = <<last.arg, last.arg2>>

\* C2: truncation.  compose(addr, tag) has the outcome of compose(addr, tag mod 2^N)
\* for every tag: excess tag bits are dropped, they are never what makes the call
\* fail, and they leave the address of an aligned addr as it was.
C2_Truncation ==
    last.op = "compose" =>
        /\ compose(last.arg, last.arg2 % (2 ^ N)) = [fatal |-> last.fatal, val |-> last.out]
        /\ AlignmentHoldsN => ~last.fatal
        /\ (AlignmentHoldsN /\ TagField(last.arg) = 0) => AddrField(last.out) = last.arg

C2_Witness ==
    /\ last.op = "compose" /\ ~last.fatal
    /\ N = 2 /\ last.arg # 0 /\ TagField(last.arg) = 0 /\ last.arg2 = 5
    /\ last.out = last.arg + 1

\* C3: alignment guard.  compose panics exactly when the pointee's alignment is
\* below 2^N, and cast panics exactly when the new pointee's alignment is below
\* 2^N, whatever the address and the tag are.
C3_AlignmentGuard ==
    /\ last.op = "compose" => (last.fatal <=> align < 2 ^ N)
    /\ last.op = "cast" => (last.fatal <=> last.arg < 2 ^ N)

C3_Witness ==
    /\ last.op = "cast" /\ last.fatal
    /\ AlignmentHoldsN /\ last.arg < 2 ^ N /\ TagField(last.recv) # 0

\* C4 as stated: is_null() is true iff the address field is zero, null() is the
\* all-zero word, and every value composed from the zero address and a non-zero
\* tag argument is null without being equal to null().
C4_AsStated ==
    /\ last.op = "is_null" => (last.out <=> AddrField(last.recv) = 0)
    /\ AddrField(null) = 0 /\ TagField(null) = 0
    /\ (last.op = "compose" /\ ~last.fatal /\ last.arg = 0 /\ last.arg2 # 0)
           => (is_null(last.out) /\ ~eq(last.out, null))

\* C4 (amended): is_null() is true iff the address field is zero, null() is the
\* all-zero word, and a value composed from the zero address and a tag that is
\* non-zero after truncation to N bits is null without being equal to null().
C4_NullDistinction ==
    /\ last.op = "is_null" => (last.out <=> AddrField(last.recv) = 0)
    /\ AddrField(null) = 0 /\ TagField(null) = 0
    /\ (last.op = "compose" /\ ~last.fatal /\ last.arg = 0 /\ last.arg2 % (2 ^ N) # 0)
           => (is_null(last.out) /\ ~eq(last.out, null))

C4_Witness ==
    /\ last.op = "is_null" /\ last.out = TRUE
    /\ AddrField(last.recv) = 0 /\ TagField(last.recv) # 0 /\ ~eq(last.recv, null)

\* C5: equality, ordering and hashing go by the whole word: eq is equality of the
\* words, cmp and partial_cmp are the numeric order of the words, hash writes the
\* whole word; two values with one address and different tags are unequal, do
\* not compare Equal, and write different words to the hasher.
C5_FullWord ==
    /\ last.op = "eq" => (last.out <=> last.recv = last.arg)
    /\ last.op = "cmp" => last.out = NumericOrder(last.recv, last.arg)
    /\ last.op = "partial_cmp" => last.out = Some(NumericOrder(last.recv, last.arg))
    /\ last.op = "hash" => last.out = <<last.recv>>
    /\ (/\ last.op \in {"eq", "cmp", "partial_cmp"}
        /\ AddrField(last.recv) = AddrField(last.arg)
        /\ TagField(last.recv) # TagField(last.arg))
           => /\ last.op = "eq" => last.out = FALSE
              /\ last.op = "cmp" => last.out # "Equal"
              /\ last.op = "partial_cmp" => last.out # Some("Equal")
              /\ hash(last.recv) # hash(last.arg)

C5_Witness ==
    /\ last.op = "eq" /\ last.out = FALSE
    /\ AddrField(last.recv) # 0
    /\ AddrField(last.recv) = AddrField(last.arg)
    /\ TagField(last.recv) # TagField(last.arg)

\* C6: tag replacement keeps the address.  For every word p and, with the
\* pointee's alignment at least 2^N, every tag t: set_tag(t) has tag t mod 2^N,
\* update_tag(f) has tag f(old tag) mod 2^N, clear_tag() has tag 0, and each has
\* the address of p.
C6_TagReplacement ==
    /\ (last.op = "set_tag" /\ AlignmentHoldsN) =>
           /\ ~last.fatal
           /\ decompose_tag(last.out) = last.arg % (2 ^ N)
           /\ decompose_ptr(last.out) = decompose_ptr(last.recv)
           /\ AddrField(last.out) = AddrField(last.recv)
    /\ (last.op = "update_tag" /\ AlignmentHoldsN) =>
           /\ ~last.fatal
           /\ decompose_tag(last.out) = Apply(last.arg, TagField(last.recv)) % (2 ^ N)
           /\ decompose_ptr(last.out) = decompose_ptr(last.recv)
           /\ AddrField(last.out) = AddrField(last.recv)
    /\ last.op = "clear_tag" =>
           /\ ~last.fatal
           /\ decompose_tag(last.out) = 0
           /\ decompose_ptr(last.out) = decompose_ptr(last.recv)
           /\ AddrField(last.out) = AddrField(last.recv)

C6_Witness ==
    /\ last.op = "set_tag" /\ ~last.fatal
    /\ AddrField(last.recv) # 0 /\ TagField(last.recv) # 0
    /\ last.arg >= 2 ^ N /\ last.arg % (2 ^ N) # TagField(last.recv)
    /\ decompose(inner) = <<AddrField(last.recv), last.arg % (2 ^ N)>>

\* C7: optional dereference.  as_ref, as_mut and the first component of
\* decompose_ref, decompose_mut are None exactly when the address field is zero,
\* that is iff is_null(); the tag paired with it is decompose_tag(); the zero
\* address with tag 0b11 gives (None, 0b11).
C7_OptionalDeref ==
    /\ last.op \in {"as_ref", "as_mut"} =>
           /\ ~last.out.some <=> AddrField(last.recv) = 0
           /\ ~last.out.some <=> is_null(last.recv)
           /\ last.out.some => last.out.addr = AddrField(last.recv)
    /\ last.op \in {"decompose_ref", "decompose_mut"} =>
           /\ ~last.out[1].some <=> AddrField(last.recv) = 0
           /\ ~last.out[1].some <=> is_null(last.recv)
           /\ last.out[2] = decompose_tag(last.recv)
           /\ last.out[2] = TagField(last.recv)
           /\ (N = 2 /\ last.recv = 3) => last.out = <<None, 3>>

C7_Witness ==
    /\ last.op = "decompose_ref"
    /\ N = 2 /\ last.recv = 3 /\ last.out = <<None, 3>>

C9_NeverFails ==
    /\ last.op = "add_tag" =>
           (~last.fatal /\ last.out = (last.recv + last.arg) % WordMod)
    /\ last.op = "sub_tag" =>
           (~last.fatal /\ last.out = (last.recv - last.arg + WordMod) % WordMod)

\* C10 as stated: clear_tag, set_tag and update_tag each panic exactly when the
\* pointee's alignment is below 2^N.
C10_AsStated ==
    last.op \in {"clear_tag", "set_tag", "update_tag"} => (last.fatal <=> align < 2 ^ N)

\* C10 (amended): set_tag and update_tag go through compose and each panics
\* exactly when the pointee's alignment is below 2^N; clear_tag does not go
\* through compose and never panics.
C10_Revalidation ==
    /\ last.op \in {"set_tag", "update_tag"} => (last.fatal <=> align < 2 ^ N)
    /\ last.op = "clear_tag" => ~last.fatal

C10_Witness ==
    /\ last.op = "set_tag" /\ last.fatal
    /\ align < 2 ^ N /\ last.recv # 0 /\ inner = last.recv

====
